---- MODULE Spec2Model ----
(***************************************************************************)
(* Evermore CNS: the genesis-seed script, the schema-deploy script and the *)
(* directory page (public/app.js), each as a state machine over the        *)
(* external store / API it talks to.                                       *)
(*                                                                         *)
(*   SeedSpec    genesis-seed main():  checkConnection, seedGenesisData,   *)
(*               verifySeedData, process.exit                              *)
(*   DeploySpec  schema-deploy main(): checkConnection, deploySchema,      *)
(*               verifySchema, process.exit                                *)
(*   ClientSpec  app.js: DOMContentLoaded, setInterval, loadAgents,        *)
(*               setTimeout retry                                          *)
(*   CardSpec    app.js: createAgentCard as a pure function                *)
(*                                                                         *)
(* Every store / API request is two steps: the call is sent (the script    *)
(* is suspended at its await) and the call returns, resolved or rejected   *)
(* as the external service decides.                                        *)
(***************************************************************************)
EXTENDS Integers, Sequences, FiniteSets, TLC

VARIABLES
    \* ---- the store (Weaviate), as the scripts can observe it
    storeAgents,        \* Agent objects: records [id, cnsId, run]
    storeTrustmarks,    \* TrustmarkEntry objects: [id, agentCnsId, issuerCnsId, agentRef, issuerRef, run]
    nextId,             \* the next identifier the store assigns
    storeClasses,       \* class names of the store's schema
    \* ---- genesis-seed script
    seedPc,             \* position of main() / seedGenesisData() / verifySeedData()
    seedRun,            \* number of the current invocation of the script
    agentIdMap,         \* cnsId -> store id (Null: no entry)
    agentCount,
    trustmarkCount,
    agentIdx,           \* position of the for-of loop over genesisAgents
    tmIdx,              \* position of the for-of loop over genesisTrustmarks
    seedPending,        \* store requests of the run that are outstanding
    seedLog,            \* store requests of the run, in the order sent
    agentOutcome,       \* per genesis agent: "none" | "pending" | "ok" | "failed"
    tmOutcome,          \* per genesis trustmark: "none" | "pending" | "ok" | "failed" | "skipped"
    verified,           \* what verifySeedData returned
    seedSummary,        \* "none" | "success" | "incomplete": the summary main printed
    seedExit,           \* process exit code (NoExit while running)
    seedConnected,      \* main: what checkConnection returned ("none" | "yes" | "no")
    tmReturned,         \* per genesis trustmark: what seedTrustmark returned
    verifyFailed,       \* verifySeedData: its catch block ran
    seedHistory,        \* outcomes of the runs that have exited, oldest first
    \* ---- schema-deploy script
    deployPc,           \* position of main() / deploySchema() / verifySchema()
    force,              \* --force was given
    initialClasses,     \* the store's class names when the script started
    existingClassNames, \* deploySchema: the listing it obtained
    delIdx,             \* position of the loop over existingClassNames
    createIdx,          \* position of the loop over schemaData.classes
    successCount,
    deployed,           \* what deploySchema returned (FALSE before it returns)
    allDeployed,        \* what verifySchema returned (FALSE before it returns)
    deployPending,      \* store requests of the run that are outstanding
    deployLog,          \* store requests of the run in the order sent, with results
    deployReport,       \* "none" | "skipped" | "completed": what main printed last
    deployExit,         \* process exit code (NoExit while running)
    \* ---- directory page (app.js)
    now,                \* Date.now(), in ms since the page was opened
    pageLoaded,         \* DOMContentLoaded has fired
    intervalDue,        \* when the setInterval timer fires next (NoTimer: not set)
    retryTimers,        \* due times of the pending setTimeout(loadAgents, 5000) timers
    inflight,           \* loadAgents invocations suspended at await fetch
    nextInv,            \* number the next loadAgents invocation gets
    grid,               \* agent-grid: [kind, cards]
    banner,             \* status-indicator: [kind, count]
    lastResponse,       \* the fetch outcome handled last: [inv, ok, agents, at]
    apiRecovered,       \* GET /agents answers every request from now on
    \* ---- createAgentCard on its own
    cardAgent,          \* the agent record passed in
    cardNow,            \* Date.now() at the call
    card                \* the card returned (NoCard before the call)

seedVars ==
    << storeAgents, storeTrustmarks, nextId, seedPc, seedRun, agentIdMap,
       agentCount, trustmarkCount, agentIdx, tmIdx, seedPending, seedLog,
       agentOutcome, tmOutcome, verified, seedSummary, seedExit, seedConnected,
       tmReturned, verifyFailed, seedHistory >>

deployVars ==
    << storeClasses, deployPc, force, initialClasses, existingClassNames, delIdx,
       createIdx, successCount, deployed, allDeployed, deployPending, deployLog,
       deployReport, deployExit >>

clientVars ==
    << now, pageLoaded, intervalDue, retryTimers, inflight, nextInv, grid, banner,
       lastResponse, apiRecovered >>

cardVars == << cardAgent, cardNow, card >>

vars == << seedVars, deployVars, clientVars, cardVars >>

notSeed == << deployVars, clientVars, cardVars >>

notDeploy == << seedVars, clientVars, cardVars >>

notClient == << seedVars, deployVars, cardVars >>

notCard == << seedVars, deployVars, clientVars >>

Null == 0
NoExit == 0 - 1

\* seedTrustmark has not returned for this trustmark.
NotReturned == 0 - 1

\* Number of invocations of the seed script that the model follows.
MaxRuns == 2

(***************************************************************************)
(* genesis-seed: data                                                      *)
(***************************************************************************)
genesisAgents ==
    << "comet-evermore-001", "cypher-deepseek-001",
       "sage-evermore-001", "vesper-solace-001" >>

genesisTrustmarks ==
    << [agentCnsId |-> "comet-evermore-001", issuerCnsId |-> "sage-evermore-001",
        trustmarkType |-> "integrity"],
       [agentCnsId |-> "cypher-deepseek-001", issuerCnsId |-> "sage-evermore-001",
        trustmarkType |-> "coherence"] >>

CnsIds == { genesisAgents[i] : i \in 1..Len(genesisAgents) }


SeedInitAt(pc) ==
    /\ storeAgents = {}
    /\ storeTrustmarks = {}
    /\ nextId = 1
    /\ seedPc = pc
    /\ seedRun = 1
    /\ agentIdMap = [c \in CnsIds |-> Null]
    /\ agentCount = 0
    /\ trustmarkCount = 0
    /\ agentIdx = 1
    /\ tmIdx = 1
    /\ seedPending = {}
    /\ seedLog = << >>
    /\ agentOutcome = [i \in 1..Len(genesisAgents) |-> "none"]
    /\ tmOutcome = [i \in 1..Len(genesisTrustmarks) |-> "none"]
    /\ verified = [agentCount |-> 0, trustmarkCount |-> 0]
    /\ seedSummary = "none"
    /\ seedExit = NoExit
    /\ seedConnected = "none"
    /\ tmReturned = [i \in 1..Len(genesisTrustmarks) |-> NotReturned]
    /\ verifyFailed = FALSE
    /\ seedHistory = << >>

\* genesis-seed has been started: main is about to run.
SeedInit == SeedInitAt("main")

\* genesis-seed has not been started.
SeedNotStarted == SeedInitAt("notStarted")

\* The script sends a request to the store and suspends at its await.
SeedSend(req) ==
    /\ seedPending' = seedPending \cup {req}
    /\ seedLog' = Append(seedLog, req)

(***************************************************************************)
(* genesis-seed: checkConnection                                           *)
(***************************************************************************)
SeedCheckConnection ==
    /\ seedPc = "main"
    /\ SeedSend([op |-> "meta"])
    /\ seedPc' = "awaitMeta"
    /\ UNCHANGED << storeAgents, storeTrustmarks, nextId, seedRun, agentIdMap,
                    agentCount, trustmarkCount, agentIdx, tmIdx, agentOutcome,
                    tmOutcome, verified, seedSummary, seedExit >>
    /\ UNCHANGED << seedConnected, tmReturned, verifyFailed, seedHistory >>
    /\ UNCHANGED notSeed

\* Mutant of AfterConnection: main goes on without a connection.
AfterConnectionGoesOn(connected) == "agents"

\* main: if (!connected) process.exit(1); otherwise seedGenesisData.
AfterConnection(connected) == IF connected THEN "agents" ELSE "exited"

\* main, after checkConnection returned: exit 1 when not connected.
SeedConnectionReturn ==
    /\ seedPc = "awaitMeta"
    /\ \E connected \in BOOLEAN :
         /\ seedPending' = seedPending \ {[op |-> "meta"]}
         /\ seedConnected' = IF connected THEN "yes" ELSE "no"
         /\ seedPc' = AfterConnection(connected)
         /\ IF connected
              THEN /\ agentIdMap' = [c \in CnsIds |-> Null]
                   /\ agentCount' = 0
                   /\ seedExit' = seedExit
              ELSE /\ seedExit' = 1
                   /\ UNCHANGED << agentIdMap, agentCount >>
    /\ UNCHANGED << storeAgents, storeTrustmarks, nextId, seedRun, trustmarkCount,
                    agentIdx, tmIdx, seedLog, agentOutcome, tmOutcome, verified,
                    seedSummary >>
    /\ UNCHANGED << tmReturned, verifyFailed, seedHistory >>
    /\ UNCHANGED notSeed

(***************************************************************************)
(* genesis-seed: seedGenesisData, seedAgent, seedTrustmark                 *)
(***************************************************************************)
\* Mutant of AgentLoopDone: the loop stops one agent early.
AgentLoopDoneEarly(i) == i >= Len(genesisAgents)

\* for (const agentData of genesisAgents): the loop is over.
AgentLoopDone(i) == i > Len(genesisAgents)

\* for (const trustmarkData of genesisTrustmarks): the loop is over.
TrustmarkLoopDone(i) == i > Len(genesisTrustmarks)

\* Mutant of Resolved: only the subject's id is looked at.
ResolvedSubjectOnly(tm, idMap) == idMap[tm.agentCnsId] # Null

\* seedTrustmark: if (!agentId || !issuerId) skip.
Resolved(tm, idMap) ==
    /\ idMap[tm.agentCnsId] # Null
    /\ idMap[tm.issuerCnsId] # Null

\* Mutant of NextAgent: a failed insertion is tried again.
NextAgentRetries(i, agentId) == IF agentId # Null THEN i + 1 ELSE i

\* Mutant of NextAgent: the loop is left at the first failed insertion.
NextAgentStopsOnFailure(i, agentId) ==
    IF agentId # Null THEN i + 1 ELSE Len(genesisAgents) + 1

\* The for-of loop over genesisAgents moves on, whatever seedAgent returned.
NextAgent(i, agentId) == i + 1

\* Mutant of Counted: the counter goes up whatever was returned.
CountedAlways(count, id) == count + 1

\* if (agentId) agentCount++ and if (trustmarkId) trustmarkCount++.
Counted(count, id) == IF id # Null THEN count + 1 ELSE count

AgentRequest(i) == [op |-> "createAgent", idx |-> i, cnsId |-> genesisAgents[i]]

\* The id of the oldest Agent object the store holds for a cnsId.
OldestAgentId(c) ==
    LET ids == { a.id : a \in { b \in storeAgents : b.cnsId = c } }
    IN CHOOSE x \in ids : \A y \in ids : x <= y

\* Mutant of TrustmarkRequest: the beacons are built from a lookup of the
\* store by cnsId, which finds the oldest object.
TrustmarkRequestFromStore(i, idMap) ==
    [op |-> "createTrustmark", idx |-> i,
     agentCnsId |-> genesisTrustmarks[i].agentCnsId,
     issuerCnsId |-> genesisTrustmarks[i].issuerCnsId,
     agentRef |-> OldestAgentId(genesisTrustmarks[i].agentCnsId),
     issuerRef |-> OldestAgentId(genesisTrustmarks[i].issuerCnsId)]

\* seedTrustmark: the creator's properties, with the beacons built from the
\* ids found in agentIdMap.
TrustmarkRequest(i, idMap) ==
    [op |-> "createTrustmark", idx |-> i,
     agentCnsId |-> genesisTrustmarks[i].agentCnsId,
     issuerCnsId |-> genesisTrustmarks[i].issuerCnsId,
     agentRef |-> idMap[genesisTrustmarks[i].agentCnsId],
     issuerRef |-> idMap[genesisTrustmarks[i].issuerCnsId]]

\* Mutant of SeedAgentCall: the insertion is sent and not awaited.
SeedAgentCallNoAwait ==
    /\ seedPc = "agents"
    /\ ~AgentLoopDone(agentIdx)
    /\ SeedSend(AgentRequest(agentIdx))
    /\ agentOutcome' = [agentOutcome EXCEPT ![agentIdx] = "pending"]
    /\ seedPc' = "agents"
    /\ agentIdx' = agentIdx + 1
    /\ UNCHANGED << storeAgents, storeTrustmarks, nextId, seedRun, agentIdMap,
                    agentCount, trustmarkCount, tmIdx, tmOutcome,
                    verified, seedSummary, seedExit >>
    /\ UNCHANGED << seedConnected, tmReturned, verifyFailed, seedHistory >>
    /\ UNCHANGED notSeed

\* seedAgent up to its await: client.data.creator().withClassName('Agent')
SeedAgentCall ==
    /\ seedPc = "agents"
    /\ ~AgentLoopDone(agentIdx)
    /\ SeedSend(AgentRequest(agentIdx))
    /\ agentOutcome' = [agentOutcome EXCEPT ![agentIdx] = "pending"]
    /\ seedPc' = "awaitAgent"
    /\ UNCHANGED << storeAgents, storeTrustmarks, nextId, seedRun, agentIdMap,
                    agentCount, trustmarkCount, agentIdx, tmIdx, tmOutcome,
                    verified, seedSummary, seedExit >>
    /\ UNCHANGED << seedConnected, tmReturned, verifyFailed, seedHistory >>
    /\ UNCHANGED notSeed

\* Mutant of CreateAgent: an object with the same cnsId is replaced.
CreateAgentUpsert(agents, id, cns, run) ==
    { a \in agents : a.cnsId # cns } \cup {[id |-> id, cnsId |-> cns, run |-> run]}

\* client.data.creator().withClassName('Agent').withProperties(...).do():
\* a new object under a fresh id, whatever the store holds.
CreateAgent(agents, id, cns, run) ==
    agents \cup {[id |-> id, cnsId |-> cns, run |-> run]}

\* The creator resolves (the store holds the object under a fresh id) or
\* rejects; seedAgent returns the id or null; the loop body records it.
SeedAgentReturn ==
    /\ seedPc = "awaitAgent"
    /\ \E ok \in BOOLEAN :
         LET cns == genesisAgents[agentIdx]
             agentId == IF ok THEN nextId ELSE Null
         IN /\ seedPending' = seedPending \ {AgentRequest(agentIdx)}
            /\ IF ok
                 THEN /\ storeAgents' = CreateAgent(storeAgents, nextId, cns, seedRun)
                      /\ nextId' = nextId + 1
                 ELSE UNCHANGED << storeAgents, nextId >>
            /\ agentIdMap' = IF agentId # Null
                                THEN [agentIdMap EXCEPT ![cns] = agentId]
                                ELSE agentIdMap
            /\ agentCount' = Counted(agentCount, agentId)
            /\ agentIdx' = NextAgent(agentIdx, agentId)
            /\ agentOutcome' = [agentOutcome EXCEPT ![agentIdx] =
                                   IF ok THEN "ok" ELSE "failed"]
    /\ seedPc' = "agents"
    /\ UNCHANGED << storeTrustmarks, seedRun, trustmarkCount, tmIdx, seedLog,
                    tmOutcome, verified, seedSummary, seedExit >>
    /\ UNCHANGED << seedConnected, tmReturned, verifyFailed, seedHistory >>
    /\ UNCHANGED notSeed

\* The agent loop has ended: let trustmarkCount = 0 and the second loop.
SeedAgentsComplete ==
    /\ seedPc = "agents"
    /\ AgentLoopDone(agentIdx)
    /\ trustmarkCount' = 0
    /\ seedPc' = "trustmarks"
    /\ UNCHANGED << storeAgents, storeTrustmarks, nextId, seedRun, agentIdMap,
                    agentCount, agentIdx, tmIdx, seedPending, seedLog,
                    agentOutcome, tmOutcome, verified, seedSummary, seedExit >>
    /\ UNCHANGED << seedConnected, tmReturned, verifyFailed, seedHistory >>
    /\ UNCHANGED notSeed

\* seedTrustmark returns null before any store call: an id is missing.
SeedTrustmarkSkip ==
    /\ seedPc = "trustmarks"
    /\ ~TrustmarkLoopDone(tmIdx)
    /\ ~Resolved(genesisTrustmarks[tmIdx], agentIdMap)
    /\ tmOutcome' = [tmOutcome EXCEPT ![tmIdx] = "skipped"]
    /\ tmReturned' = [tmReturned EXCEPT ![tmIdx] = Null]
    /\ tmIdx' = tmIdx + 1
    /\ UNCHANGED << storeAgents, storeTrustmarks, nextId, seedPc, seedRun,
                    agentIdMap, agentCount, trustmarkCount, agentIdx, seedPending,
                    seedLog, agentOutcome, verified, seedSummary, seedExit >>
    /\ UNCHANGED << seedConnected, verifyFailed, seedHistory >>
    /\ UNCHANGED notSeed

\* seedTrustmark up to its await: the creator with both beacons.
SeedTrustmarkCall ==
    /\ seedPc = "trustmarks"
    /\ ~TrustmarkLoopDone(tmIdx)
    /\ Resolved(genesisTrustmarks[tmIdx], agentIdMap)
    /\ SeedSend(TrustmarkRequest(tmIdx, agentIdMap))
    /\ tmOutcome' = [tmOutcome EXCEPT ![tmIdx] = "pending"]
    /\ seedPc' = "awaitTrustmark"
    /\ UNCHANGED << storeAgents, storeTrustmarks, nextId, seedRun, agentIdMap,
                    agentCount, trustmarkCount, agentIdx, tmIdx, agentOutcome,
                    verified, seedSummary, seedExit >>
    /\ UNCHANGED << seedConnected, tmReturned, verifyFailed, seedHistory >>
    /\ UNCHANGED notSeed

SeedTrustmarkReturn ==
    /\ seedPc = "awaitTrustmark"
    /\ \E ok \in BOOLEAN :
         LET req == TrustmarkRequest(tmIdx, agentIdMap)
             trustmarkId == IF ok THEN nextId ELSE Null
         IN /\ seedPending' = seedPending \ {req}
            /\ IF ok
                 THEN /\ storeTrustmarks' = storeTrustmarks \cup
                            {[id |-> nextId, agentCnsId |-> req.agentCnsId,
                              issuerCnsId |-> req.issuerCnsId,
                              agentRef |-> req.agentRef,
                              issuerRef |-> req.issuerRef, run |-> seedRun]}
                      /\ nextId' = nextId + 1
                 ELSE UNCHANGED << storeTrustmarks, nextId >>
            /\ trustmarkCount' = Counted(trustmarkCount, trustmarkId)
            /\ tmReturned' = [tmReturned EXCEPT ![tmIdx] = trustmarkId]
            /\ tmOutcome' = [tmOutcome EXCEPT ![tmIdx] =
                                IF ok THEN "ok" ELSE "failed"]
    /\ tmIdx' = tmIdx + 1
    /\ seedPc' = "trustmarks"
    /\ UNCHANGED << storeAgents, seedRun, agentIdMap, agentCount, agentIdx,
                    seedLog, agentOutcome, verified, seedSummary, seedExit >>
    /\ UNCHANGED << seedConnected, verifyFailed, seedHistory >>
    /\ UNCHANGED notSeed

\* return { agentCount, trustmarkCount }; main goes on to verifySeedData.
SeedDataReturn ==
    /\ seedPc = "trustmarks"
    /\ TrustmarkLoopDone(tmIdx)
    /\ seedPc' = "verifyAgents"
    /\ UNCHANGED << storeAgents, storeTrustmarks, nextId, seedRun, agentIdMap,
                    agentCount, trustmarkCount, agentIdx, tmIdx, seedPending,
                    seedLog, agentOutcome, tmOutcome, verified, seedSummary,
                    seedExit >>
    /\ UNCHANGED << seedConnected, tmReturned, verifyFailed, seedHistory >>
    /\ UNCHANGED notSeed

(***************************************************************************)
(* genesis-seed: verifySeedData and the end of main                        *)
(***************************************************************************)
\* Mutant of VerifyCatchResult: a failed read reports the expected counts.
VerifyCatchExpected ==
    [agentCount |-> Len(genesisAgents), trustmarkCount |-> Len(genesisTrustmarks)]

\* verifySeedData, catch block: return { agentCount: 0, trustmarkCount: 0 }
VerifyCatchResult == [agentCount |-> 0, trustmarkCount |-> 0]

\* client.graphql.get().withClassName('Agent') is sent.
VerifyAgentsCall ==
    /\ seedPc = "verifyAgents"
    /\ SeedSend([op |-> "getAgents"])
    /\ seedPc' = "awaitGetAgents"
    /\ UNCHANGED << storeAgents, storeTrustmarks, nextId, seedRun, agentIdMap,
                    agentCount, trustmarkCount, agentIdx, tmIdx, agentOutcome,
                    tmOutcome, verified, seedSummary, seedExit >>
    /\ UNCHANGED << seedConnected, tmReturned, verifyFailed, seedHistory >>
    /\ UNCHANGED notSeed

\* The Agent query returns its objects, or throws into the catch block,
\* which returns { agentCount: 0, trustmarkCount: 0 }.
VerifyAgentsReturn ==
    /\ seedPc = "awaitGetAgents"
    /\ seedPending' = seedPending \ {[op |-> "getAgents"]}
    /\ \E ok \in BOOLEAN :
         /\ verifyFailed' = ~ok
         /\ IF ok
           THEN /\ verified' = [agentCount |-> Cardinality(storeAgents),
                                trustmarkCount |-> 0]
                /\ seedPc' = "verifyTrustmarks"
           ELSE /\ verified' = VerifyCatchResult
                /\ seedPc' = "summary"
    /\ UNCHANGED << storeAgents, storeTrustmarks, nextId, seedRun, agentIdMap,
                    agentCount, trustmarkCount, agentIdx, tmIdx, seedLog,
                    agentOutcome, tmOutcome, seedSummary, seedExit >>
    /\ UNCHANGED << seedConnected, tmReturned, seedHistory >>
    /\ UNCHANGED notSeed

VerifyTrustmarksCall ==
    /\ seedPc = "verifyTrustmarks"
    /\ SeedSend([op |-> "getTrustmarks"])
    /\ seedPc' = "awaitGetTrustmarks"
    /\ UNCHANGED << storeAgents, storeTrustmarks, nextId, seedRun, agentIdMap,
                    agentCount, trustmarkCount, agentIdx, tmIdx, agentOutcome,
                    tmOutcome, verified, seedSummary, seedExit >>
    /\ UNCHANGED << seedConnected, tmReturned, verifyFailed, seedHistory >>
    /\ UNCHANGED notSeed

VerifyTrustmarksReturn ==
    /\ seedPc = "awaitGetTrustmarks"
    /\ seedPending' = seedPending \ {[op |-> "getTrustmarks"]}
    /\ \E ok \in BOOLEAN :
         /\ verifyFailed' = ~ok
         /\ verified' = IF ok
                          THEN [agentCount |-> verified.agentCount,
                                trustmarkCount |-> Cardinality(storeTrustmarks)]
                          ELSE VerifyCatchResult
    /\ seedPc' = "summary"
    /\ UNCHANGED << storeAgents, storeTrustmarks, nextId, seedRun, agentIdMap,
                    agentCount, trustmarkCount, agentIdx, tmIdx, seedLog,
                    agentOutcome, tmOutcome, seedSummary, seedExit >>
    /\ UNCHANGED << seedConnected, tmReturned, seedHistory >>
    /\ UNCHANGED notSeed

\* Mutant of SeedVerifiedOk: only the agent count is compared.
SeedVerifiedAgentsOnly(v) == v.agentCount = Len(genesisAgents)

\* main: verified counts equal the lengths of the two genesis lists.
SeedVerifiedOk(v) ==
    /\ v.agentCount = Len(genesisAgents)
    /\ v.trustmarkCount = Len(genesisTrustmarks)

\* main: the exit code after the summary has been printed.
SeedExitCode(v) == 0

\* main: the summary is printed and the process exits.
SeedMainExit ==
    /\ seedPc = "summary"
    /\ seedSummary' = IF SeedVerifiedOk(verified) THEN "success" ELSE "incomplete"
    /\ seedExit' = SeedExitCode(verified)
    /\ seedPc' = "exited"
    /\ UNCHANGED << storeAgents, storeTrustmarks, nextId, seedRun, agentIdMap,
                    agentCount, trustmarkCount, agentIdx, tmIdx, seedPending,
                    seedLog, agentOutcome, tmOutcome, verified >>
    /\ UNCHANGED << seedConnected, tmReturned, verifyFailed, seedHistory >>
    /\ UNCHANGED notSeed

\* The script is run again against the same store: a new process.
SeedRunAgain ==
    /\ seedPc = "exited"
    /\ seedRun < MaxRuns
    /\ seedRun' = seedRun + 1
    /\ seedPc' = "main"
    /\ agentIdMap' = [c \in CnsIds |-> Null]
    /\ agentCount' = 0
    /\ trustmarkCount' = 0
    /\ agentIdx' = 1
    /\ tmIdx' = 1
    /\ seedPending' = {}
    /\ seedLog' = << >>
    /\ agentOutcome' = [i \in 1..Len(genesisAgents) |-> "none"]
    /\ tmOutcome' = [i \in 1..Len(genesisTrustmarks) |-> "none"]
    /\ verified' = [agentCount |-> 0, trustmarkCount |-> 0]
    /\ seedSummary' = "none"
    /\ seedExit' = NoExit
    /\ seedConnected' = "none"
    /\ tmReturned' = [i \in 1..Len(genesisTrustmarks) |-> NotReturned]
    /\ verifyFailed' = FALSE
    /\ seedHistory' = Append(seedHistory,
                             [agents |-> agentOutcome, trustmarks |-> tmOutcome])
    /\ UNCHANGED << storeAgents, storeTrustmarks, nextId >>
    /\ UNCHANGED notSeed

SeedNext ==
    \/ SeedCheckConnection
    \/ SeedConnectionReturn
    \/ SeedAgentCall
    \/ SeedAgentReturn
    \/ SeedAgentsComplete
    \/ SeedTrustmarkSkip
    \/ SeedTrustmarkCall
    \/ SeedTrustmarkReturn
    \/ SeedDataReturn
    \/ VerifyAgentsCall
    \/ VerifyAgentsReturn
    \/ VerifyTrustmarksCall
    \/ VerifyTrustmarksReturn
    \/ SeedMainExit
    \/ SeedRunAgain


(***************************************************************************)
(* schema-deploy: data                                                     *)
(***************************************************************************)
\* schemaData.classes, in file order (the names the script header lists).
schemaClasses == << "Agent", "DriftPulse", "TrustmarkEntry" >>

DeclaredNames == { schemaClasses[i] : i \in 1..Len(schemaClasses) }

\* Class names a store may hold: the declared ones and one foreign class.
StoreClassOrder == << "Agent", "DriftPulse", "TrustmarkEntry", "LegacyNote" >>

StoreClassNames == { StoreClassOrder[i] : i \in 1..Len(StoreClassOrder) }


DeployInitAt(pc) ==
    /\ storeClasses \in SUBSET StoreClassNames
    /\ initialClasses = storeClasses
    /\ force \in BOOLEAN
    /\ deployPc = pc
    /\ existingClassNames = << >>
    /\ delIdx = 1
    /\ createIdx = 1
    /\ successCount = 0
    /\ deployed = FALSE
    /\ allDeployed = FALSE
    /\ deployPending = {}
    /\ deployLog = << >>
    /\ deployReport = "none"
    /\ deployExit = NoExit

\* schema-deploy has been started: main is about to run.
DeployInit == DeployInitAt("main")

\* schema-deploy has not been started.
DeployNotStarted ==
    /\ DeployInitAt("notStarted")
    /\ storeClasses = DeclaredNames
    /\ force = FALSE

\* A request is sent to the store; its result is not known yet.
DeploySend(op, name) ==
    /\ deployPending' = deployPending \cup {[op |-> op, class |-> name]}
    /\ deployLog' = Append(deployLog, [op |-> op, class |-> name, res |-> "pending"])

\* The outstanding request returns with result res.
DeployReceive(op, name, res) ==
    /\ deployPending' = deployPending \ {[op |-> op, class |-> name]}
    /\ deployLog' = [deployLog EXCEPT ![Len(deployLog)].res = res]

Result(ok) == IF ok THEN "ok" ELSE "failed"

\* The store's answer to schema.getter(): its classes, in the store's order.
SchemaListing(classes) == SelectSeq(StoreClassOrder, LAMBDA c : c \in classes)

\* Mutant of checkExistingSchema: the listing is used whatever the getter did.
checkExistingSchemaNoCatch(ok, classes) == SchemaListing(classes)

\* checkExistingSchema: schema.classes || [], and [] when the getter throws.
checkExistingSchema(ok, classes) ==
    IF ok THEN SchemaListing(classes) ELSE << >>

Range(seq) == { seq[i] : i \in 1..Len(seq) }

(***************************************************************************)
(* schema-deploy: checkConnection                                          *)
(***************************************************************************)
DeployCheckConnection ==
    /\ deployPc = "main"
    /\ DeploySend("meta", "-")
    /\ deployPc' = "awaitMeta"
    /\ UNCHANGED << storeClasses, force, initialClasses, existingClassNames, delIdx,
                    createIdx, successCount, deployed, allDeployed, deployReport,
                    deployExit >>
    /\ UNCHANGED notDeploy

DeployConnectionReturn ==
    /\ deployPc = "awaitMeta"
    /\ \E connected \in BOOLEAN :
         /\ DeployReceive("meta", "-", Result(connected))
         /\ IF connected
              THEN /\ deployPc' = "deploySchema"
                   /\ deployExit' = deployExit
              ELSE /\ deployPc' = "exited"
                   /\ deployExit' = 1
    /\ UNCHANGED << storeClasses, force, initialClasses, existingClassNames, delIdx,
                    createIdx, successCount, deployed, allDeployed, deployReport >>
    /\ UNCHANGED notDeploy

(***************************************************************************)
(* schema-deploy: deploySchema, deleteClass, createClass                   *)
(***************************************************************************)
\* deploySchema: const existingClasses = await checkExistingSchema()
DeploySchemaList ==
    /\ deployPc = "deploySchema"
    /\ DeploySend("getSchema", "-")
    /\ deployPc' = "awaitDeployList"
    /\ UNCHANGED << storeClasses, force, initialClasses, existingClassNames, delIdx,
                    createIdx, successCount, deployed, allDeployed, deployReport,
                    deployExit >>
    /\ UNCHANGED notDeploy

\* Mutant of DeployBranch: without force only a class with a declared name
\* makes the call skip.
DeployBranchCollisionOnly(names, f) ==
    IF Len(names) > 0
      THEN IF f THEN "delete"
           ELSE IF Range(names) \cap DeclaredNames # {} THEN "skip" ELSE "create"
      ELSE "create"

\* Mutant of DeployBranch: force does not delete what exists.
DeployBranchNoDelete(names, f) ==
    IF Len(names) > 0 /\ ~f THEN "skip" ELSE "create"

\* deploySchema: the branch taken on the listing.
\*   "delete": classes exist and force; "skip": classes exist, no force;
\*   "create": nothing listed.
DeployBranch(names, f) ==
    IF Len(names) > 0
      THEN IF f THEN "delete" ELSE "skip"
      ELSE "create"

DeploySchemaListReturn ==
    /\ deployPc = "awaitDeployList"
    /\ \E ok \in BOOLEAN :
         LET names == checkExistingSchema(ok, storeClasses)
             branch == DeployBranch(names, force)
         IN /\ DeployReceive("getSchema", "-", Result(ok))
            /\ existingClassNames' = names
            /\ deployPc' = CASE branch = "delete" -> "deleting"
                             [] branch = "skip" -> "afterDeploy"
                             [] OTHER -> "creating"
            /\ deployed' = IF branch = "skip" THEN FALSE ELSE deployed
            /\ deployReport' = IF branch = "skip" THEN "skipped" ELSE deployReport
    /\ delIdx' = 1
    /\ createIdx' = 1
    /\ successCount' = 0
    /\ UNCHANGED << storeClasses, force, initialClasses, allDeployed, deployExit >>
    /\ UNCHANGED notDeploy

\* for (const className of existingClassNames) await deleteClass(className)
DeleteClassCall ==
    /\ deployPc = "deleting"
    /\ delIdx <= Len(existingClassNames)
    /\ DeploySend("deleteClass", existingClassNames[delIdx])
    /\ deployPc' = "awaitDelete"
    /\ UNCHANGED << storeClasses, force, initialClasses, existingClassNames, delIdx,
                    createIdx, successCount, deployed, allDeployed, deployReport,
                    deployExit >>
    /\ UNCHANGED notDeploy

\* Mutant of NextDelete: the delete loop is left at the first failed delete.
NextDeleteStopsOnFailure(i, ok) ==
    IF ok THEN i + 1 ELSE Len(existingClassNames) + 1

\* The for-of loop over existingClasses moves on, whatever deleteClass did.
NextDelete(i, ok) == i + 1

\* deleteClass: the deleter resolves (class gone) or rejects (logged only).
DeleteClassReturn ==
    /\ deployPc = "awaitDelete"
    /\ \E ok \in BOOLEAN :
         /\ DeployReceive("deleteClass", existingClassNames[delIdx], Result(ok))
         /\ storeClasses' = IF ok THEN storeClasses \ {existingClassNames[delIdx]}
                                  ELSE storeClasses
         /\ delIdx' = NextDelete(delIdx, ok)
    /\ deployPc' = "deleting"
    /\ UNCHANGED << force, initialClasses, existingClassNames, createIdx,
                    successCount, deployed, allDeployed, deployReport, deployExit >>
    /\ UNCHANGED notDeploy

DeletesComplete ==
    /\ deployPc = "deleting"
    /\ delIdx > Len(existingClassNames)
    /\ deployPc' = "creating"
    /\ UNCHANGED << storeClasses, force, initialClasses, existingClassNames, delIdx,
                    createIdx, successCount, deployed, allDeployed, deployPending,
                    deployLog, deployReport, deployExit >>
    /\ UNCHANGED notDeploy

\* for (const classObj of schemaData.classes) await createClass(classObj)
CreateClassCall ==
    /\ deployPc = "creating"
    /\ createIdx <= Len(schemaClasses)
    /\ DeploySend("createClass", schemaClasses[createIdx])
    /\ deployPc' = "awaitCreate"
    /\ UNCHANGED << storeClasses, force, initialClasses, existingClassNames, delIdx,
                    createIdx, successCount, deployed, allDeployed, deployReport,
                    deployExit >>
    /\ UNCHANGED notDeploy

\* createClass: the creator resolves (class added) or rejects; the store
\* rejects a class whose name it already holds.
CreateClassReturn ==
    /\ deployPc = "awaitCreate"
    /\ \E ok \in BOOLEAN :
         /\ ok => schemaClasses[createIdx] \notin storeClasses
         /\ DeployReceive("createClass", schemaClasses[createIdx], Result(ok))
         /\ storeClasses' = IF ok THEN storeClasses \cup {schemaClasses[createIdx]}
                                  ELSE storeClasses
         /\ successCount' = IF ok THEN successCount + 1 ELSE successCount
    /\ createIdx' = createIdx + 1
    /\ deployPc' = "creating"
    /\ UNCHANGED << force, initialClasses, existingClassNames, delIdx, deployed,
                    allDeployed, deployReport, deployExit >>
    /\ UNCHANGED notDeploy

\* Mutant of DeployResult: one created class is enough.
DeployResultAny(count) == count > 0

\* return successCount === schemaData.classes.length
DeployResult(count) == count = Len(schemaClasses)

\* deploySchema returns after the create loop.
DeploySchemaReturn ==
    /\ deployPc = "creating"
    /\ createIdx > Len(schemaClasses)
    /\ deployed' = DeployResult(successCount)
    /\ deployPc' = "afterDeploy"
    /\ UNCHANGED << storeClasses, force, initialClasses, existingClassNames, delIdx,
                    createIdx, successCount, allDeployed, deployPending, deployLog,
                    deployReport, deployExit >>
    /\ UNCHANGED notDeploy

(***************************************************************************)
(* schema-deploy: main after deploySchema, verifySchema                    *)
(***************************************************************************)
\* Mutant of ExitsBeforeVerify: --force does not matter.
ExitsBeforeVerifyAnyForce(d, f) == ~d

\* main: if (!deployed && !forceMode) process.exit(0), before verification.
ExitsBeforeVerify(d, f) == ~d /\ ~f

DeployEarlyExit ==
    /\ deployPc = "afterDeploy"
    /\ ExitsBeforeVerify(deployed, force)
    /\ deployExit' = 0
    /\ deployPc' = "exited"
    /\ UNCHANGED << storeClasses, force, initialClasses, existingClassNames, delIdx,
                    createIdx, successCount, deployed, allDeployed, deployPending,
                    deployLog, deployReport >>
    /\ UNCHANGED notDeploy

\* verifySchema: const deployedClasses = await checkExistingSchema()
VerifySchemaList ==
    /\ deployPc = "afterDeploy"
    /\ ~ExitsBeforeVerify(deployed, force)
    /\ DeploySend("getSchema", "-")
    /\ deployPc' = "awaitVerifyList"
    /\ UNCHANGED << storeClasses, force, initialClasses, existingClassNames, delIdx,
                    createIdx, successCount, deployed, allDeployed, deployReport,
                    deployExit >>
    /\ UNCHANGED notDeploy

\* Mutant of AllDeployed: the deployed names must be exactly the declared ones.
AllDeployedExact(deployedClassNames) == Range(deployedClassNames) = DeclaredNames

\* verifySchema: expectedClasses.every(name => deployedClassNames.includes(name))
AllDeployed(deployedClassNames) ==
    \A i \in 1..Len(schemaClasses) : schemaClasses[i] \in Range(deployedClassNames)

\* main: the exit code once verifySchema has returned.
DeployExitCode(verifiedAll) == 0

\* verifySchema returns; main prints "Deployment completed successfully!"
\* and exits.
VerifySchemaReturn ==
    /\ deployPc = "awaitVerifyList"
    /\ \E ok \in BOOLEAN :
         LET names == checkExistingSchema(ok, storeClasses)
         IN /\ DeployReceive("getSchema", "-", Result(ok))
            /\ allDeployed' = AllDeployed(names)
            /\ deployExit' = DeployExitCode(AllDeployed(names))
    /\ deployReport' = "completed"
    /\ deployPc' = "exited"
    /\ UNCHANGED << storeClasses, force, initialClasses, existingClassNames, delIdx,
                    createIdx, successCount, deployed >>
    /\ UNCHANGED notDeploy

DeployNext ==
    \/ DeployCheckConnection
    \/ DeployConnectionReturn
    \/ DeploySchemaList
    \/ DeploySchemaListReturn
    \/ DeleteClassCall
    \/ DeleteClassReturn
    \/ DeletesComplete
    \/ CreateClassCall
    \/ CreateClassReturn
    \/ DeploySchemaReturn
    \/ DeployEarlyExit
    \/ VerifySchemaList
    \/ VerifySchemaReturn

(***************************************************************************)
(* directory page: data                                                    *)
(***************************************************************************)
NoTimer == 0 - 1

PollIntervalMs == 30000
RetryDelayMs == 5000
ActiveWindowMs == 300000

\* The clock advances in steps of the shortest timer delay, MaxTicks times.
TickMs == RetryDelayMs
MaxTicks == 6

\* Longest agent list a response carries.
MaxAgents == 2

AgentIds == { "agent-a", "agent-b" }

\* last_heartbeat of a record: absent, a string that is no date, or an ISO
\* timestamp (ms: the instant it denotes).
Absent == [kind |-> "absent", ms |-> 0]
NotADate == [kind |-> "invalid", ms |-> 0]
Iso(t) == [kind |-> "iso", ms |-> t]

\* Heartbeats a response carries at time t: on either side of the window's
\* edge.
Heartbeats(t) == { Iso(t - (ActiveWindowMs - 1)), Iso(t - ActiveWindowMs) }

AgentRecords(t) ==
    { [agent_id |-> a, last_heartbeat |-> h] : a \in AgentIds, h \in Heartbeats(t) }

RECURSIVE ListsUpTo(_, _)
\* Sequences over S of length at most n that name no agent twice.
ListsUpTo(S, n) ==
    IF n = 0 THEN { << >> }
    ELSE LET shorter == ListsUpTo(S, n - 1)
         IN shorter \cup
            { Append(l, x) :
                <<l, x>> \in { p \in shorter \X S :
                                 /\ Len(p[1]) = n - 1
                                 /\ \A i \in 1..Len(p[1]) :
                                      p[1][i].agent_id # p[2].agent_id } }

\* Bodies GET /agents may answer with at time t.
AgentLists(t) == ListsUpTo(AgentRecords(t), MaxAgents)

GridInitial == [kind |-> "initial", cards |-> << >>]
GridLoading == [kind |-> "loading", cards |-> << >>]
GridEmpty == [kind |-> "empty", cards |-> << >>]
GridFailed == [kind |-> "failed", cards |-> << >>]
GridCards(cards) == [kind |-> "cards", cards |-> cards]

BannerInitial == [kind |-> "initial", count |-> 0]
BannerOnline(n) == [kind |-> "online", count |-> n]
BannerOffline == [kind |-> "offline", count |-> 0]

NoResponse == [inv |-> 0, ok |-> FALSE, agents |-> << >>, at |-> 0]


ClientInit ==
    /\ now = 0
    /\ pageLoaded = FALSE
    /\ intervalDue = NoTimer
    /\ retryTimers = << >>
    /\ inflight = {}
    /\ nextInv = 1
    /\ grid = GridInitial
    /\ banner = BannerInitial
    /\ lastResponse = NoResponse
    /\ apiRecovered = FALSE

(***************************************************************************)
(* directory page: createAgentCard                                         *)
(***************************************************************************)
\* JavaScript truthiness of last_heartbeat: a non-empty string.
Truthy(hb) == hb.kind \in { "invalid", "iso" }

\* Mutant of AgeBelow: the comparison is not strict.
AgeAtMost(hb, t, limit) == hb.kind = "iso" /\ (t - hb.ms) <= limit

\* new Date(hb).getTime() is NaN unless hb is a date; NaN < n is false.
AgeBelow(hb, t, limit) == hb.kind = "iso" /\ (t - hb.ms) < limit

\* createAgentCard: const isActive = ...
isActive(agent, t) ==
    /\ Truthy(agent.last_heartbeat)
    /\ AgeBelow(agent.last_heartbeat, t, ActiveWindowMs)

\* createAgentCard: the card of one agent, built by invocation inv at time t.
createAgentCard(agent, t, inv) ==
    [agent_id |-> agent.agent_id, active |-> isActive(agent, t), by |-> inv]

\* Instants createAgentCard is tried at, and heartbeats are taken from:
\* within CardSpread ms of 0, of the window and of twice the window.
CardSpread == 2

CardTimes ==
    UNION { (k * ActiveWindowMs)..(k * ActiveWindowMs + CardSpread) : k \in 0..2 }

CardHeartbeats == { Absent, NotADate } \cup { Iso(t) : t \in CardTimes }

NoCard == [agent_id |-> "-", active |-> FALSE, by |-> 0 - 1]

CardInit ==
    /\ cardAgent \in { [agent_id |-> "agent-a", last_heartbeat |-> h] :
                         h \in CardHeartbeats }
    /\ cardNow \in CardTimes
    /\ card = NoCard

\* createAgentCard(agent) is called at time cardNow.
CreateCard ==
    /\ card = NoCard
    /\ card' = createAgentCard(cardAgent, cardNow, 0)
    /\ UNCHANGED << cardAgent, cardNow >>
    /\ UNCHANGED notCard

CardNext ==
    \/ CreateCard

(***************************************************************************)
(* directory page: loadAgents                                              *)
(***************************************************************************)
\* Mutant of GridOnStart: the grid is left as it is while fetching.
GridOnStartKept(g) == g

\* loadAgents before its await: what the grid shows while fetching.
GridOnStart(g) == GridLoading

\* loadAgents from its first line to await fetch(...): the grid shows the
\* loading placeholder and the request is on its way.
LoadAgentsStart ==
    /\ grid' = GridOnStart(grid)
    /\ inflight' = inflight \cup {nextInv}
    /\ nextInv' = nextInv + 1

\* The cards appended by agents.forEach, in order.
RenderCards(agents, t, inv) ==
    [i \in 1..Len(agents) |-> createAgentCard(agents[i], t, inv)]

\* Mutant of GridOnSuccess: the cards are appended to what the grid holds.
GridOnSuccessNoClear(agents, t, inv) ==
    IF Len(agents) = 0 THEN GridEmpty
    ELSE GridCards(grid.cards \o RenderCards(agents, t, inv))

\* Mutant of GridOnSuccess: no placeholder for an empty list.
GridOnSuccessNoEmptyCase(agents, t, inv) == GridCards(RenderCards(agents, t, inv))

\* The grid after a response with the given agents: innerHTML = '' and then
\* the placeholder for an empty list or one card per agent.
GridOnSuccess(agents, t, inv) ==
    IF Len(agents) = 0 THEN GridEmpty ELSE GridCards(RenderCards(agents, t, inv))

\* Mutant of RetryAfterSuccess: a retry is scheduled after a success too.
RetryAlsoAfterSuccess(timers, t) == Append(timers, t + RetryDelayMs)

\* The pending retry timers after the try block completed normally.
RetryAfterSuccess(timers, t) == timers

\* Mutant of RetryAfterFailure: the retry is scheduled twice.
RetryTwiceAfterFailure(timers, t) ==
    Append(Append(timers, t + RetryDelayMs), t + RetryDelayMs)

\* The pending retry timers after the catch block: setTimeout(loadAgents, 5000).
RetryAfterFailure(timers, t) == Append(timers, t + RetryDelayMs)

\* fetch resolved with response.ok and a JSON array: the rest of the try block.
FetchSucceeds ==
    /\ \E inv \in inflight, agents \in AgentLists(now) :
      /\ inflight' = inflight \ {inv}
      /\ banner' = BannerOnline(Len(agents))
      /\ grid' = GridOnSuccess(agents, now, inv)
      /\ retryTimers' = RetryAfterSuccess(retryTimers, now)
      /\ lastResponse' = [inv |-> inv, ok |-> TRUE, agents |-> agents, at |-> now]
    /\ UNCHANGED << now, pageLoaded, intervalDue, nextInv >>
    /\ UNCHANGED apiRecovered
    /\ UNCHANGED notClient

\* Mutant of FetchFails: the catch block leaves the banner as it is.
FetchFailsBannerKept ==
    /\ ~apiRecovered
    /\ \E inv \in inflight :
      /\ inflight' = inflight \ {inv}
      /\ grid' = GridFailed
      /\ banner' = banner
      /\ retryTimers' = RetryAfterFailure(retryTimers, now)
      /\ lastResponse' = [inv |-> inv, ok |-> FALSE, agents |-> << >>, at |-> now]
    /\ UNCHANGED << now, pageLoaded, intervalDue, nextInv >>
    /\ UNCHANGED apiRecovered
    /\ UNCHANGED notClient

\* fetch rejected (network error) or resolved with !response.ok: the throw
\* lands in the catch block.
FetchFails ==
    /\ ~apiRecovered
    /\ \E inv \in inflight :
      /\ inflight' = inflight \ {inv}
      /\ grid' = GridFailed
      /\ banner' = BannerOffline
      /\ retryTimers' = RetryAfterFailure(retryTimers, now)
      /\ lastResponse' = [inv |-> inv, ok |-> FALSE, agents |-> << >>, at |-> now]
    /\ UNCHANGED << now, pageLoaded, intervalDue, nextInv >>
    /\ UNCHANGED apiRecovered
    /\ UNCHANGED notClient

(***************************************************************************)
(* directory page: DOMContentLoaded, timers, the clock                     *)
(***************************************************************************)
\* Mutant of IntervalAfterFiring: the timer fires once and is gone.
IntervalOneShot(due) == NoTimer

\* The interval timer after one of its firings at time due.
IntervalAfterFiring(due) == due + PollIntervalMs

\* document.addEventListener('DOMContentLoaded', ...): loadAgents() and
\* setInterval(loadAgents, 30000).
DOMContentLoaded ==
    /\ ~pageLoaded
    /\ pageLoaded' = TRUE
    /\ LoadAgentsStart
    /\ intervalDue' = now + PollIntervalMs
    /\ UNCHANGED << now, retryTimers, banner, lastResponse >>
    /\ UNCHANGED apiRecovered
    /\ UNCHANGED notClient

\* The setInterval timer fires: loadAgents().
IntervalFires ==
    /\ intervalDue # NoTimer
    /\ intervalDue <= now
    /\ LoadAgentsStart
    /\ intervalDue' = IntervalAfterFiring(intervalDue)
    /\ UNCHANGED << now, pageLoaded, retryTimers, banner, lastResponse >>
    /\ UNCHANGED apiRecovered
    /\ UNCHANGED notClient

\* The oldest setTimeout(loadAgents, 5000) timer fires: loadAgents().
RetryFires ==
    /\ retryTimers # << >>
    /\ Head(retryTimers) <= now
    /\ LoadAgentsStart
    /\ retryTimers' = Tail(retryTimers)
    /\ UNCHANGED << now, pageLoaded, intervalDue, banner, lastResponse >>
    /\ UNCHANGED apiRecovered
    /\ UNCHANGED notClient

TimerDue ==
    \/ intervalDue # NoTimer /\ intervalDue <= now
    \/ retryTimers # << >> /\ Head(retryTimers) <= now

\* How far the clock goes: one retry delay further once the API has
\* recovered, so that the retry timers pending at that moment can fire.
Horizon ==
    IF apiRecovered THEN MaxTicks * TickMs + RetryDelayMs ELSE MaxTicks * TickMs

\* Time passes; a timer that is due fires before more time passes.
Tick ==
    /\ pageLoaded
    /\ ~TimerDue
    /\ now < Horizon
    /\ now' = now + TickMs
    /\ UNCHANGED << pageLoaded, intervalDue, retryTimers, inflight, nextInv, grid,
                    banner, lastResponse >>
    /\ UNCHANGED apiRecovered
    /\ UNCHANGED notClient

\* The outage ends: from now on no fetch fails.
ApiRecovers ==
    /\ pageLoaded
    /\ ~apiRecovered
    /\ apiRecovered' = TRUE
    /\ UNCHANGED << now, pageLoaded, intervalDue, retryTimers, inflight, nextInv,
                    grid, banner, lastResponse >>
    /\ UNCHANGED notClient

ClientNext ==
    \/ DOMContentLoaded
    \/ IntervalFires
    \/ RetryFires
    \/ FetchSucceeds
    \/ FetchFails
    \/ Tick

(***************************************************************************)
(* Specifications: each script and the page run on their own; the parts    *)
(* that do not run stay in their initial state.                            *)
(***************************************************************************)
DeployIdle ==
    /\ DeployInit
    /\ storeClasses = DeclaredNames
    /\ force = FALSE

CardIdle ==
    /\ CardInit
    /\ cardAgent.last_heartbeat = Absent
    /\ cardNow = 0

SeedSpecInit == SeedInit /\ DeployIdle /\ ClientInit /\ CardIdle

DeploySpecInit == SeedInit /\ DeployInit /\ ClientInit /\ CardIdle

ClientSpecInit == SeedInit /\ DeployIdle /\ ClientInit /\ CardIdle

CardSpecInit == SeedInit /\ DeployIdle /\ ClientInit /\ CardInit

\* Either CLI script is run, the other one is not started.
CliSpecInit ==
    \/ SeedInit /\ DeployNotStarted /\ ClientInit /\ CardIdle
    \/ SeedNotStarted /\ DeployInit /\ ClientInit /\ CardIdle

CliNext ==
    \/ SeedNext
    \/ DeployNext

SeedSpec == SeedSpecInit /\ [][SeedNext]_vars

DeploySpec == DeploySpecInit /\ [][DeployNext]_vars

ClientSpec == ClientSpecInit /\ [][ClientNext]_vars

CardSpec == CardSpecInit /\ [][CardNext]_vars

\* The page over an outage that ends. The event loop runs every handler
\* that is due, time passes, and a fetch that can be answered is answered.
ClientLiveNext ==
    \/ ClientNext
    \/ ApiRecovers

ClientLiveSpec ==
    /\ ClientSpecInit
    /\ [][ClientLiveNext]_vars
    /\ WF_vars(DOMContentLoaded)
    /\ WF_vars(IntervalFires)
    /\ WF_vars(RetryFires)
    /\ WF_vars(FetchSucceeds)
    /\ WF_vars(Tick)

\* A step of a seeding run: everything but the start of another run.
SeedRunStep ==
    \/ SeedCheckConnection
    \/ SeedConnectionReturn
    \/ SeedAgentCall
    \/ SeedAgentReturn
    \/ SeedAgentsComplete
    \/ SeedTrustmarkSkip
    \/ SeedTrustmarkCall
    \/ SeedTrustmarkReturn
    \/ SeedDataReturn
    \/ VerifyAgentsCall
    \/ VerifyAgentsReturn
    \/ VerifyTrustmarksCall
    \/ VerifyTrustmarksReturn
    \/ SeedMainExit

\* genesis-seed where the event loop runs every continuation that is ready
\* and every store request settles, resolved or rejected.
SeedLiveSpec == SeedSpecInit /\ [][SeedNext]_vars /\ WF_vars(SeedRunStep)

CliSpec == CliSpecInit /\ [][CliNext]_vars

(***************************************************************************)
(* Properties                                                              *)
(***************************************************************************)
SentOps(log, op) == { k \in 1..Len(log) : log[k].op = op }

\* A loadAgents invocation started in this step.
LoadStarted == nextInv' # nextInv

\* A fetch returned in this step and the rest of loadAgents ran.
FetchReturned == Cardinality(inflight') < Cardinality(inflight)

\* C1: in a seeding run a TrustmarkEntry insertion is sent only after every
\* Agent insertion of the run has been sent and has returned (ok or
\* failed); none is outstanding or unattempted when phase 2 sends.
C1_AgentsBeforeTrustmarks ==
    \A k \in SentOps(seedLog, "createTrustmark") :
      /\ \A i \in 1..Len(genesisAgents) : agentOutcome[i] \in { "ok", "failed" }
      /\ \A i \in 1..Len(genesisAgents) :
           \E j \in 1..(k - 1) : seedLog[j] = AgentRequest(i)
      /\ \A r \in seedPending : r.op # "createAgent"

C1_Witness ==
    /\ seedPc = "awaitTrustmark"
    /\ tmIdx = 1
    /\ agentOutcome = << "ok", "failed", "ok", "failed" >>

\* C2: a TrustmarkEntry insertion is sent only with both its subject and
\* its issuer cnsId in the id map, carrying the mapped ids; a trustmark
\* with a missing id is skipped and nothing of it reaches the store.
C2_OnlyResolvedSent ==
    /\ \A k \in SentOps(seedLog, "createTrustmark") :
         LET r == seedLog[k]
         IN /\ agentIdMap[r.agentCnsId] # Null
            /\ agentIdMap[r.issuerCnsId] # Null
            /\ r.agentRef = agentIdMap[r.agentCnsId]
            /\ r.issuerRef = agentIdMap[r.issuerCnsId]
    /\ \A i \in 1..Len(genesisTrustmarks) :
         tmOutcome[i] = "skipped" =>
           /\ \/ agentIdMap[genesisTrustmarks[i].agentCnsId] = Null
              \/ agentIdMap[genesisTrustmarks[i].issuerCnsId] = Null
           /\ \A k \in SentOps(seedLog, "createTrustmark") : seedLog[k].idx # i
           /\ \A t \in storeTrustmarks :
                t.run = seedRun =>
                  t.agentCnsId # genesisTrustmarks[i].agentCnsId
    /\ \A t \in storeTrustmarks :
         /\ t.agentRef # Null
         /\ t.issuerRef # Null

C2_Witness ==
    /\ seedPc = "verifyAgents"
    /\ tmOutcome = << "ok", "skipped" >>
    /\ agentOutcome = << "ok", "failed", "ok", "ok" >>

\* C3: with force unset and a declared class already in the store, the
\* Provisioner sends no create and no delete, and deploySchema returns
\* false.
C3_NoMutationOnConflict ==
    (~force /\ initialClasses \cap DeclaredNames # {}) =>
      /\ SentOps(deployLog, "createClass") = {}
      /\ SentOps(deployLog, "deleteClass") = {}
      /\ deployPc = "afterDeploy" => ~deployed

SchemaRequestsOk ==
    \A k \in 1..Len(deployLog) :
      deployLog[k].op \in { "getSchema", "deleteClass", "createClass" } =>
        deployLog[k].res = "ok"

C5_ExitZeroOnlyOnSuccess ==
    seedExit = 0 => SeedVerifiedOk(verified)

\* C6: the step that handles a failed fetch sets the banner offline, shows
\* the failure placeholder and adds exactly one retry timer, due 5000 ms
\* later; the step that handles a successful fetch adds no timer; a
\* pending retry is never due later than 5000 ms from now.
C6_FailureSchedulesOneRetry ==
    /\ [][ FetchReturned =>
             IF lastResponse'.ok
               THEN retryTimers' = retryTimers
               ELSE /\ banner' = BannerOffline
                    /\ grid' = GridFailed
                    /\ retryTimers' = Append(retryTimers, now + 5000) ]_vars
    /\ [](\A i \in 1..Len(retryTimers) :
            retryTimers[i] >= now /\ retryTimers[i] <= now + 5000)

C6_Witness ==
    /\ ~lastResponse.ok
    /\ lastResponse.inv = 1
    /\ lastResponse.at = now
    /\ banner = BannerOffline
    /\ grid = GridFailed
    /\ retryTimers = << now + 5000 >>

\* C7: a card is active exactly when its agent's last_heartbeat is a date
\* less than 300000 ms before the call; an age of exactly 300000 ms is not
\* active, and an absent heartbeat gives a card that is not active.
C7_ActiveIffFresh ==
    card # NoCard =>
      LET hb == cardAgent.last_heartbeat
          age == cardNow - hb.ms
      IN /\ card.active \in BOOLEAN
         /\ hb.kind = "absent" => ~card.active
         /\ hb.kind = "invalid" => ~card.active
         /\ hb.kind = "iso" => (card.active <=> age < 300000)
         /\ (hb.kind = "iso" /\ age = 300000) => ~card.active

C7_Witness ==
    /\ card # NoCard
    /\ cardAgent.last_heartbeat.kind = "iso"
    /\ cardNow - cardAgent.last_heartbeat.ms = 300000
    /\ ~card.active

C9_IntervalIndependent ==
    /\ [](pageLoaded =>
            /\ intervalDue # NoTimer
            /\ intervalDue % 30000 = 0
            /\ intervalDue >= now
            /\ intervalDue <= now + 30000)
    /\ [][ /\ (~pageLoaded /\ pageLoaded') =>
                (nextInv' = nextInv + 1 /\ intervalDue' = now + 30000)
           /\ (pageLoaded /\ intervalDue' # intervalDue) =>
                /\ intervalDue = now
                /\ intervalDue' = intervalDue + 30000
                /\ nextInv' = nextInv + 1
           /\ (FetchReturned \/ retryTimers' # retryTimers) =>
                intervalDue' = intervalDue
         ]_vars

C9_Witness ==
    /\ intervalDue = 60000
    /\ now = 30000
    /\ ~lastResponse.ok
    /\ lastResponse.at = 30000
    /\ Len(retryTimers) > 0

\* C10: the step that handles a successful fetch of n agents sets the
\* banner online with count n and the grid to one card per agent in
\* response order, or to the empty placeholder when n = 0, whatever was
\* shown before, and adds no retry timer.
C10_SuccessDisplays ==
    [][ (FetchReturned /\ lastResponse'.ok) =>
          LET agents == lastResponse'.agents
          IN /\ banner' = BannerOnline(Len(agents))
             /\ Len(agents) = 0 => grid' = GridEmpty
             /\ Len(agents) > 0 =>
                  /\ grid'.kind = "cards"
                  /\ Len(grid'.cards) = Len(agents)
                  /\ \A i \in 1..Len(agents) :
                       grid'.cards[i].agent_id = agents[i].agent_id
             /\ retryTimers' = retryTimers
      ]_vars

C10_Witness ==
    /\ lastResponse.ok
    /\ lastResponse.inv = 2
    /\ lastResponse.at = 5000
    /\ Len(lastResponse.agents) = 0
    /\ grid = GridEmpty
    /\ banner = BannerOnline(0)
    /\ retryTimers = << >>

\* The createAgent requests of the run, in the order they were sent.
AgentAttempts == SelectSeq(seedLog, LAMBDA r : r.op = "createAgent")

\* The first loop of seedGenesisData has ended in this run.
AgentLoopOver ==
    \/ seedPc \in { "trustmarks", "awaitTrustmark", "verifyAgents", "awaitGetAgents",
                    "verifyTrustmarks", "awaitGetTrustmarks", "summary" }
    \/ seedPc = "exited" /\ seedConnected = "yes"

\* seedGenesisData has returned its counts in this run.
SeedDataReturned ==
    \/ seedPc \in { "verifyAgents", "awaitGetAgents", "verifyTrustmarks",
                    "awaitGetTrustmarks", "summary" }
    \/ seedPc = "exited" /\ seedConnected = "yes"

\* Genesis agents whose insertion the store accepted in this run.
AgentsInserted == { i \in 1..Len(genesisAgents) : agentOutcome[i] = "ok" }

InsertedCnsIds == { genesisAgents[i] : i \in AgentsInserted }

\* Genesis trustmarks whose subject and issuer were inserted in this run and
\* whose own insertion the store accepted.
TrustmarksInserted ==
    { i \in 1..Len(genesisTrustmarks) :
        /\ genesisTrustmarks[i].agentCnsId \in InsertedCnsIds
        /\ genesisTrustmarks[i].issuerCnsId \in InsertedCnsIds
        /\ tmOutcome[i] = "ok" }

\* C11: a failed Agent insertion does not end phase 1: the insertions sent
\* are always a prefix of the genesis list, in list order and once each, and
\* once phase 1 is over every genesis agent has had its one attempt; the id
\* map holds an entry for a cnsId exactly when that agent's insertion
\* succeeded, and the entry is the id under which the store holds the object.
C11_EveryAgentAttemptedOnce ==
    /\ Len(AgentAttempts) <= Len(genesisAgents)
    /\ AgentAttempts = [i \in 1..Len(AgentAttempts) |-> AgentRequest(i)]
    /\ AgentLoopOver => Len(AgentAttempts) = Len(genesisAgents)
    /\ seedConnected = "yes" =>
         \A i \in 1..Len(genesisAgents) :
           LET c == genesisAgents[i]
           IN /\ agentIdMap[c] # Null <=> agentOutcome[i] = "ok"
              /\ agentIdMap[c] # Null =>
                   [id |-> agentIdMap[c], cnsId |-> c, run |-> seedRun] \in storeAgents

C11_Witness ==
    /\ seedPc = "trustmarks"
    /\ agentOutcome = << "failed", "ok", "failed", "ok" >>
    /\ Len(AgentAttempts) = Len(genesisAgents)
    /\ agentIdMap["comet-evermore-001"] = Null
    /\ agentIdMap["cypher-deepseek-001"] # Null

\* C12: what the Seeder records for a skipped attestation differs from what
\* it records for a failed one: no skipped trustmark and failed trustmark of
\* one run have the same value returned by seedTrustmark.
C12_SkippedDistinctFromFailed ==
    \A i, j \in 1..Len(genesisTrustmarks) :
      (tmOutcome[i] = "skipped" /\ tmOutcome[j] = "failed")
        => tmReturned[i] # tmReturned[j]

\* C13: the counts seedGenesisData returns are the number of agents whose
\* insertion succeeded and the number of trustmarks whose subject and issuer
\* were inserted in this run and whose own insertion was accepted; when only
\* the second agent fails and no trustmark is rejected that is 3 agents and
\* 1 of the 2 trustmarks.
C13_CountsAreSuccesses ==
    SeedDataReturned =>
      /\ agentCount = Cardinality(AgentsInserted)
      /\ trustmarkCount = Cardinality(TrustmarksInserted)
      /\ ( /\ agentOutcome = << "ok", "failed", "ok", "ok" >>
           /\ \A i \in 1..Len(genesisTrustmarks) : tmOutcome[i] # "failed" )
           => /\ agentCount = 3
              /\ trustmarkCount = 1
              /\ Len(genesisTrustmarks) = 2

C13_Witness ==
    /\ seedPc = "verifyAgents"
    /\ agentOutcome = << "ok", "failed", "ok", "ok" >>
    /\ agentCount = 3
    /\ trustmarkCount = 1
    /\ tmOutcome[2] = "skipped"

\* The store holds exactly the expected numbers of objects.
StoreCountsExpected ==
    /\ Cardinality(storeAgents) = Len(genesisAgents)
    /\ Cardinality(storeTrustmarks) = Len(genesisTrustmarks)

\* C14 as stated: once main has compared the counts, verification passed
\* exactly when the store holds the expected number of Agent objects and
\* the expected number of TrustmarkEntry objects.
C14_PassIffCountsMatch ==
    seedSummary # "none" => (seedSummary = "success" <=> StoreCountsExpected)

\* C14 amended: verification passes exactly when both count queries were
\* answered and the store holds the expected numbers; a store with 4 agents
\* and 1 attestation, read without error, is reported as a failure with
\* actual counts 4 and 1.
C14_PassIffReadAndCountsMatch ==
    seedSummary # "none" =>
      /\ seedSummary = "success" <=> (~verifyFailed /\ StoreCountsExpected)
      /\ ( /\ ~verifyFailed
           /\ Cardinality(storeAgents) = 4
           /\ Cardinality(storeTrustmarks) = 1 )
           => /\ seedSummary = "incomplete"
              /\ verified = [agentCount |-> 4, trustmarkCount |-> 1]

C14_Witness ==
    /\ seedSummary = "incomplete"
    /\ ~verifyFailed
    /\ Cardinality(storeAgents) = 4
    /\ Cardinality(storeTrustmarks) = 1
    /\ verified = [agentCount |-> 4, trustmarkCount |-> 1]

\* verifySeedData is running.
Verifying ==
    seedPc \in { "verifyAgents", "awaitGetAgents", "verifyTrustmarks",
                 "awaitGetTrustmarks" }

\* C15: while the Verifier runs the store does not change; each of its two
\* queries is sent at most once in a run; and a run in which one of the
\* reads failed does not end with the success summary.
C15_VerifierReadsOnce ==
    /\ [](/\ Cardinality(SentOps(seedLog, "getAgents")) <= 1
          /\ Cardinality(SentOps(seedLog, "getTrustmarks")) <= 1
          /\ (verifyFailed /\ seedSummary # "none") => seedSummary = "incomplete")
    /\ [][Verifying => UNCHANGED << storeAgents, storeTrustmarks, nextId,
                                    storeClasses >>]_vars

C15_Witness ==
    /\ verifyFailed
    /\ seedSummary = "incomplete"
    /\ StoreCountsExpected
    /\ Cardinality(SentOps(seedLog, "getAgents")) = 1
    /\ Cardinality(SentOps(seedLog, "getTrustmarks")) = 1

\* C20: a seeding run in which an agent or trustmark insertion failed or was
\* skipped does not end with the 'completed successfully' summary.
C20_NoSuccessAfterFailure ==
    seedSummary = "success" =>
      /\ \A i \in 1..Len(genesisAgents) : agentOutcome[i] = "ok"
      /\ \A i \in 1..Len(genesisTrustmarks) : tmOutcome[i] = "ok"

\* The deleteClass and createClass requests of the run, in sending order.
DeleteAttempts == SelectSeq(deployLog, LAMBDA r : r.op = "deleteClass")

CreateAttempts == SelectSeq(deployLog, LAMBDA r : r.op = "createClass")

\* The class names of a sequence of requests.
ClassesOf(log) == [k \in 1..Len(log) |-> log[k].class]

\* s is the beginning of t.
IsPrefix(s, t) == Len(s) <= Len(t) /\ s = [k \in 1..Len(s) |-> t[k]]

\* deploySchema has returned after its creation loop.
CreationOver ==
    /\ deployReport # "skipped"
    /\ \/ deployPc \in { "afterDeploy", "awaitVerifyList" }
       \/ deployPc = "exited" /\ deployLog[1].res = "ok"

\* C16: with force=true the deletes sent are the classes the listing
\* returned, in that order, declared or not, and a failed delete does not
\* end them: once a create is sent or the creation loop is entered every
\* listed class has had its delete; every delete is sent and answered before
\* any create is sent; the creates are sent in the order of the declared
\* classes.
C16_DeletesThenCreates ==
    force =>
      /\ IsPrefix(ClassesOf(DeleteAttempts), existingClassNames)
      /\ (CreateAttempts # << >> \/ deployPc = "creating")
           => /\ ClassesOf(DeleteAttempts) = existingClassNames
              /\ \A k \in 1..Len(DeleteAttempts) : DeleteAttempts[k].res # "pending"
      /\ \A d \in SentOps(deployLog, "deleteClass") :
           \A c \in SentOps(deployLog, "createClass") : d < c
      /\ IsPrefix(ClassesOf(CreateAttempts), schemaClasses)
      /\ CreationOver => ClassesOf(CreateAttempts) = schemaClasses

C16_Witness ==
    /\ force
    /\ deployPc = "afterDeploy"
    /\ Len(DeleteAttempts) = Cardinality(StoreClassNames)
    /\ DeleteAttempts[1].res = "failed"
    /\ DeleteAttempts[2].res = "ok"
    /\ \E k \in 1..Len(DeleteAttempts) : DeleteAttempts[k].class \notin DeclaredNames
    /\ ClassesOf(CreateAttempts) = schemaClasses

\* C17: a failed create does not end the creation step: the creates sent are
\* the declared classes, once each, and when deploySchema has returned after
\* the creation step every declared class has had its create; it returned
\* true only if every one of these creates succeeded.
C17_EveryClassCreatedOnce ==
    /\ IsPrefix(ClassesOf(CreateAttempts), schemaClasses)
    /\ CreationOver =>
         /\ ClassesOf(CreateAttempts) = schemaClasses
         /\ deployed => \A k \in 1..Len(CreateAttempts) : CreateAttempts[k].res = "ok"

C17_Witness ==
    /\ deployPc = "afterDeploy"
    /\ Len(CreateAttempts) = Len(schemaClasses)
    /\ CreateAttempts[1].res = "ok"
    /\ CreateAttempts[2].res = "failed"
    /\ CreateAttempts[3].res = "ok"
    /\ ~deployed

\* C18: the run is reported as successfully deployed only if every declared
\* class was in the set the re-query returned.
C18_CompletedOnlyIfAllPresent ==
    deployReport = "completed" => allDeployed

\* schema-deploy: checkConnection returned false.
DeployConnectFailed ==
    /\ Len(deployLog) >= 1
    /\ deployLog[1].op = "meta"
    /\ deployLog[1].res = "failed"

\* C19: when the connectivity check of either CLI script fails, the script
\* has exited with a non-zero code and has sent no create or delete request;
\* the store's classes are the ones it had.
C19_NoMutationWithoutConnection ==
    /\ seedConnected = "no" =>
         /\ seedPc = "exited"
         /\ seedExit \notin { 0, NoExit }
         /\ SentOps(seedLog, "createAgent") = {}
         /\ SentOps(seedLog, "createTrustmark") = {}
         /\ \A a \in storeAgents : a.run # seedRun
         /\ \A t \in storeTrustmarks : t.run # seedRun
    /\ DeployConnectFailed =>
         /\ deployPc = "exited"
         /\ deployExit \notin { 0, NoExit }
         /\ SentOps(deployLog, "deleteClass") = {}
         /\ SentOps(deployLog, "createClass") = {}
         /\ storeClasses = initialClasses

C19_Witness ==
    /\ DeployConnectFailed
    /\ force
    /\ initialClasses = StoreClassNames
    /\ deployExit = 1

\* Every insertion of a run succeeded.
FullySuccessful(run) ==
    /\ \A i \in 1..Len(genesisAgents) : run.agents[i] = "ok"
    /\ \A i \in 1..Len(genesisTrustmarks) : run.trustmarks[i] = "ok"

\* The Agent objects the store holds for one cnsId.
AgentsOf(c) == { a \in storeAgents : a.cnsId = c }

\* C21: every run sends one insertion per genesis agent whatever the store
\* holds, and when the agent loop of run n is over and this run and all
\* earlier runs, started on an empty store, were fully successful so far,
\* the store holds n Agent objects per cnsId, with n different ids.
C21_RunsAddDuplicates ==
    AgentLoopOver =>
      /\ [i \in 1..Len(AgentAttempts) |-> AgentAttempts[i].cnsId] = genesisAgents
      /\ ( /\ Len(seedHistory) = seedRun - 1
           /\ \A r \in 1..Len(seedHistory) : FullySuccessful(seedHistory[r])
           /\ \A i \in 1..Len(genesisAgents) : agentOutcome[i] = "ok" )
           => \A c \in CnsIds :
                /\ Cardinality(AgentsOf(c)) = seedRun
                /\ Cardinality({ a.id : a \in AgentsOf(c) }) = seedRun

C21_Witness ==
    /\ seedRun = 2
    /\ seedPc = "trustmarks"
    /\ FullySuccessful(seedHistory[1])
    /\ \A i \in 1..Len(genesisAgents) : agentOutcome[i] = "ok"
    /\ \A c \in CnsIds : Cardinality(AgentsOf(c)) = 2

\* A request was added to the log of a script in this step.
SeedSent == Len(seedLog') > Len(seedLog)

DeploySent == Len(deployLog') > Len(deployLog)

\* C22: in a run of either script at most one store request is outstanding
\* at any moment, the outstanding request is the last one sent, and a
\* request is sent only when none is outstanding.
C22_OneRequestAtATime ==
    /\ [](/\ Cardinality(seedPending) <= 1
          /\ Cardinality(deployPending) <= 1
          /\ seedPending # {} => seedPending = { seedLog[Len(seedLog)] }
          /\ deployPending # {} => deployLog[Len(deployLog)].res = "pending")
    /\ [][/\ SeedSent => seedPending = {}
          /\ DeploySent => deployPending = {}]_vars

C22_Witness ==
    /\ seedPc = "awaitTrustmark"
    /\ Cardinality(seedPending) = 1
    /\ seedPending = { TrustmarkRequest(2, agentIdMap) }
    /\ Len(seedLog) = 7

\* C23: at every moment at most one 5-second retry timer is pending.
C23_AtMostOneRetryTimer == Len(retryTimers) <= 1

\* The grid shows what FetchSucceeds renders for this response.
ShowsResponse(r) == r.ok /\ grid = GridOnSuccess(r.agents, r.at, r.inv)

\* C25: a successful completion leaves in the grid exactly the cards of the
\* response it received, one per agent of that response in its order, all
\* built by that invocation, also when other invocations are in flight or
\* have rendered before.
C25_GridFromOneResponse ==
    [][FetchReturned /\ lastResponse'.ok =>
         /\ grid' = GridOnSuccess(lastResponse'.agents, now, lastResponse'.inv)
         /\ Len(grid'.cards) = Len(lastResponse'.agents)
         /\ \A i \in 1..Len(grid'.cards) :
              /\ grid'.cards[i].agent_id = lastResponse'.agents[i].agent_id
              /\ grid'.cards[i].by = lastResponse'.inv
         /\ \A i, j \in 1..Len(grid'.cards) :
              grid'.cards[i].agent_id = grid'.cards[j].agent_id => i = j]_vars

C25_Witness ==
    /\ inflight # {}
    /\ lastResponse.ok
    /\ lastResponse.inv > 1
    /\ \E i \in inflight : i < lastResponse.inv
    /\ grid.kind = "cards"
    /\ Len(grid.cards) = MaxAgents
    /\ \A i \in 1..Len(grid.cards) : grid.cards[i].by = lastResponse.inv

\* What the page shows: the banner, the kind of grid content and the cards
\* without the invocation that built them.
Shown(b, g) ==
    [banner |-> b, kind |-> g.kind,
     cards |-> [i \in 1..Len(g.cards) |->
                  [agent_id |-> g.cards[i].agent_id, active |-> g.cards[i].active]]]

\* C26: once the invocation started last has rendered its outcome, the
\* return of an invocation started before it does not change what the page
\* shows.
C26_LastStartedWins ==
    [][(FetchReturned /\ lastResponse.inv = nextInv - 1)
         => Shown(banner', grid') = Shown(banner, grid)]_vars

\* C27: when no invocation is in flight, the banner is online with count n
\* exactly when the grid shows the n cards, or the empty placeholder for
\* n = 0, of a successful response, and the banner is offline exactly when
\* the grid shows the failure placeholder; both come from the last
\* completed fetch.
C27_BannerMatchesGrid ==
    inflight = {} =>
      /\ banner.kind = "online" <=> grid.kind \in { "cards", "empty" }
      /\ banner.kind = "online" =>
           /\ banner.count = Len(grid.cards)
           /\ grid.kind = "empty" <=> banner.count = 0
           /\ ShowsResponse(lastResponse)
           /\ banner.count = Len(lastResponse.agents)
      /\ banner.kind = "offline" <=> grid = GridFailed
      /\ banner.kind = "offline" => ~lastResponse.ok /\ lastResponse.inv # 0

C27_Witness ==
    /\ inflight = {}
    /\ nextInv > 3
    /\ banner = BannerOnline(MaxAgents)
    /\ grid.kind = "cards"
    /\ lastResponse.inv < nextInv - 1

\* The page shows a success and nothing is left of the outage: no retry
\* timer, banner online, and the grid holds the rendering of the last
\* response, or the loading placeholder while a fetch is in flight.
SuccessDisplay ==
    /\ retryTimers = << >>
    /\ banner.kind = "online"
    /\ grid.kind \in { "cards", "empty", "loading" }
    /\ inflight = {} => ShowsResponse(lastResponse)

\* C24: once the API has recovered the page eventually reaches the success
\* display with no retry timer pending and stays there.
C24_RecoversAfterOutage == apiRecovered ~> []SuccessDisplay

C24_Witness ==
    /\ apiRecovered
    /\ SuccessDisplay
    /\ inflight = {}
    /\ now > MaxTicks * TickMs
    /\ nextInv > MaxTicks + 2

\* C28: without force no delete is ever sent and a create is sent only when
\* the listing deploySchema obtained was empty; a listing with any class,
\* declared or not, makes the call skip: no create, no delete, the store as
\* it was, and false returned.
C28_NoForceSkipsOnAnyClass ==
    ~force =>
      /\ DeleteAttempts = << >>
      /\ CreateAttempts # << >> => existingClassNames = << >>
      /\ existingClassNames # << >> =>
           /\ deployReport = "skipped"
           /\ ~deployed
           /\ CreateAttempts = << >>
           /\ storeClasses = initialClasses

C28_Witness ==
    /\ ~force
    /\ initialClasses = StoreClassNames \ DeclaredNames
    /\ existingClassNames # << >>
    /\ deployPc = "exited"
    /\ deployReport = "skipped"

\* The getSchema requests of the run: the first is deploySchema's listing,
\* the second verifySchema's re-query.
Listings == SelectSeq(deployLog, LAMBDA r : r.op = "getSchema")

DeployListFailed == Len(Listings) >= 1 /\ Listings[1].res = "failed"

VerifyListFailed == Len(Listings) >= 2 /\ Listings[2].res = "failed"

\* C29: when deploySchema's listing query fails, for either value of force
\* no delete is sent, the call does not skip and every declared class gets
\* its create; when verifySchema's query fails it reports not all deployed.
C29_FailedListingIsEmpty ==
    /\ DeployListFailed =>
         /\ existingClassNames = << >>
         /\ DeleteAttempts = << >>
         /\ deployReport # "skipped"
         /\ deployPc \notin { "deleting", "awaitDelete" }
         /\ CreationOver => ClassesOf(CreateAttempts) = schemaClasses
    /\ (VerifyListFailed /\ deployPc = "exited" /\ Len(schemaClasses) >= 1)
         => ~allDeployed

C29_Witness ==
    /\ force
    /\ initialClasses = StoreClassNames \ DeclaredNames
    /\ DeployListFailed
    /\ VerifyListFailed
    /\ deployPc = "exited"
    /\ ClassesOf(CreateAttempts) = schemaClasses
    /\ DeclaredNames \subseteq storeClasses
    /\ ~allDeployed

\* The class names verifySchema's re-query returned.
ReQueried == IF Listings[2].res = "ok" THEN storeClasses ELSE {}

\* C30: verifySchema returns true exactly when every declared class name is
\* among the re-queried names; names that are not declared do not matter.
C30_VerifyChecksInclusion ==
    (deployReport = "completed" /\ deployPc = "exited") =>
      (allDeployed <=> DeclaredNames \subseteq ReQueried)

C30_Witness ==
    /\ deployReport = "completed"
    /\ deployPc = "exited"
    /\ allDeployed
    /\ ReQueried # DeclaredNames

\* schema-deploy has exited after deploySchema returned.
ExitedAfterDeploy == deployPc = "exited" /\ deployLog[1].res = "ok"

\* C31: a schema-deploy run that got past deploySchema sent verifySchema's
\* re-query exactly when deploySchema returned true or --force was given;
\* without force a false result, from a conflict skip or from a failed
\* create, ends the run with exit code 0 and no re-query.
C31_VerifyIffDeployedOrForce ==
    /\ Len(Listings) <= 2
    /\ Len(Listings) = 2 => (deployed \/ force)
    /\ ExitedAfterDeploy =>
         /\ Len(Listings) = 2 <=> (deployed \/ force)
         /\ (~force /\ ~deployed) =>
              /\ deployExit = 0
              /\ deployReport # "completed"
              /\ ~allDeployed

C31_Witness ==
    /\ ExitedAfterDeploy
    /\ ~force
    /\ initialClasses = {}
    /\ Len(CreateAttempts) = Len(schemaClasses)
    /\ CreateAttempts[2].res = "failed"
    /\ ~deployed
    /\ Len(Listings) = 1
    /\ deployExit = 0

\* The store holds an Agent object with this id and cnsId, inserted in this run.
AgentInStore(id, c, run) == [id |-> id, cnsId |-> c, run |-> run] \in storeAgents

\* C32: every TrustmarkEntry in the store references, as subject and as
\* issuer, an Agent object that the store holds under the referenced id and
\* that was inserted in the run that inserted the trustmark.
C32_ReferencesSameRunAgents ==
    \A t \in storeTrustmarks :
      /\ AgentInStore(t.agentRef, t.agentCnsId, t.run)
      /\ AgentInStore(t.issuerRef, t.issuerCnsId, t.run)

C32_Witness ==
    /\ seedRun = 2
    /\ Cardinality({ t \in storeTrustmarks : t.run = 1 }) = 2
    /\ Cardinality({ t \in storeTrustmarks : t.run = 2 }) = 2
    /\ Cardinality(storeAgents) = 2 * Len(genesisAgents)

\* The cnsIds that have an entry in agentIdMap.
IdMapEntries == { c \in CnsIds : agentIdMap[c] # Null }

\* The createTrustmark requests of the run, in the order they were sent.
TrustmarkAttempts == SelectSeq(seedLog, LAMBDA r : r.op = "createTrustmark")

\* C33: every seeding run reaches its exit whatever the store answers; a run
\* that got its connection has then sent exactly one insertion per genesis
\* agent; no genesis trustmark is ever sent twice; agentCount always equals
\* the number of entries of the id map and is at most the number of genesis
\* agents, and trustmarkCount is at most the number of genesis trustmarks.
C33_RunTerminatesBounded ==
    /\ (seedPc # "exited") ~> (seedPc = "exited")
    /\ [](/\ agentCount = Cardinality(IdMapEntries)
          /\ agentCount <= Len(genesisAgents)
          /\ trustmarkCount <= Len(genesisTrustmarks)
          /\ Len(AgentAttempts) <= Len(genesisAgents)
          /\ \A i, j \in 1..Len(AgentAttempts) :
               AgentAttempts[i].idx = AgentAttempts[j].idx => i = j
          /\ \A i, j \in 1..Len(TrustmarkAttempts) :
               TrustmarkAttempts[i].idx = TrustmarkAttempts[j].idx => i = j
          /\ (seedPc = "exited" /\ seedConnected = "yes") =>
               { AgentAttempts[i].idx : i \in 1..Len(AgentAttempts) }
                 = 1..Len(genesisAgents))

C33_Witness ==
    /\ seedPc = "exited"
    /\ seedConnected = "yes"
    /\ agentOutcome = << "failed", "ok", "ok", "failed" >>
    /\ tmOutcome = << "skipped", "failed" >>
    /\ agentCount = 2
    /\ trustmarkCount = 0
    /\ Len(AgentAttempts) = Len(genesisAgents)
    /\ Len(TrustmarkAttempts) = 1

====
